---- MODULE Spec2Model ----
(***************************************************************************)
(* Model of the DWUCK4 card-image encoders (tools/generate_input.py and    *)
(* tools/generate_scan_7MeV.py) and of the decoders of the engine output   *)
(* (tools/plot_bound_states.py, tools/plot_single_run.py and               *)
(* tools/plot_scan_overlay.py).                                            *)
(*                                                                         *)
(* Text is modelled as TLA+ strings, one character per position, so that   *)
(* field widths and column positions are those of the generated cards.     *)
(* A float is modelled as an exact decimal: a sign flag, an integer part,  *)
(* and a fractional part of fd digits.  Where the decimal value lies       *)
(* exactly half way between two renderings, the binary float the program   *)
(* holds lies on one side or the other: the side is the input tieUp.       *)
(***************************************************************************)
EXTENDS Integers, Sequences, FiniteSets, TLC

VARIABLES
    pc,        \* "call f" before the modelled call of f, "f" once it has returned
    val,       \* fmt_f8: argument val
    places,    \* fmt_f8: argument decimal_places
    tieUp,     \* fmt_f8: side of a decimal tie on which the float val lies
    ties,      \* the same for each depth computed by format_state_block
    fmt_out,   \* fmt_f8: what the caller observes (result, raised, warnings)
    state,     \* format_state_block: the CSV row
    ex_mev,    \* format_state: argument ex_mev, in units of 0.001 MeV
    opt_pot,   \* format_state_block: result of calculate_proton_optical_model
    W_D,       \* format_state_block: result of calculate_deuteron_W_surface
    lines,     \* the block returned by format_state_block / format_state
    csv,       \* generate_input_file: the rows of the CSV file
    gen,       \* generate_input_file / main: the locals states, i and the outcome
    out_file,  \* the output file: whether it exists, and its lines
    doc,       \* the decoders: the lines of the engine output read
    dec        \* the decoders: the locals of the running parser

vars == <<pc, val, places, tieUp, ties, fmt_out, state, ex_mev, opt_pot, W_D, lines,
          csv, gen, out_file, doc, dec>>

\* The variables of the batch encoders and of the decoders.
genVars == <<csv, gen, out_file>>
decVars == <<doc, dec>>

-----------------------------------------------------------------------------
(* Bounds of the model.                                                    *)

\* Largest number of integer digits of a value given to fmt_f8.
MaxIntDigits == 8
\* Fractional digits carried by a value given to fmt_f8.
ModelFracDigits == 4
\* Largest decimal_places argument given to fmt_f8.
MaxPlaces == 4

-----------------------------------------------------------------------------
(* Text and number helpers (Python str and format-spec semantics).         *)

RECURSIVE Pow10(_)
Pow10(k) == IF k <= 0 THEN 1 ELSE 10 * Pow10(k - 1)

Digit(d) == SubSeq("0123456789", d + 1, d + 1)

RECURSIVE NatStr(_)
NatStr(n) == IF n < 10 THEN Digit(n) ELSE NatStr(n \div 10) \o Digit(n % 10)

RECURSIVE Spaces(_)
Spaces(k) == IF k <= 0 THEN "" ELSE " " \o Spaces(k - 1)

RECURSIVE Zeros(_)
Zeros(k) == IF k <= 0 THEN "" ELSE "0" \o Zeros(k - 1)

\* str.ljust(w): pads on the right, never cuts.
Ljust(s, w) == s \o Spaces(w - Len(s))

\* s[:w]
Prefix(s, w) == IF Len(s) <= w THEN s ELSE SubSeq(s, 1, w)

\* zero fill on the left up to width w
ZFill(s, w) == Zeros(w - Len(s)) \o s

\* A float as an exact decimal.
Num(neg, ip, fp, fd) == [neg |-> neg, ip |-> ip, fp |-> fp, fd |-> fd]

Abs(n) == IF n < 0 THEN -n ELSE n

\* The float whose value is n * 10^-fd.
NumOf(n, fd) == Num(n < 0, Abs(n) \div Pow10(fd), Abs(n) % Pow10(fd), fd)

\* Rounding of |v| to d fractional digits, as the 'f' presentation type does:
\* correctly rounded from the binary value, so a decimal tie goes to the side
\* the binary value lies on; an exact .5 at d = 0 goes to the even integer.
RoundMag(v, d, tie) ==
    IF d >= v.fd
    THEN [ip |-> v.ip, fp |-> v.fp * Pow10(d - v.fd)]
    ELSE LET u    == Pow10(v.fd - d)
             q    == v.fp \div u
             r    == v.fp % u
             half == u \div 2
             up   == \/ r > half
                     \/ r = half /\ (IF d = 0 THEN v.ip % 2 = 1 ELSE tie)
             q2   == IF up THEN q + 1 ELSE q
         IN  IF q2 = Pow10(d)
             THEN [ip |-> v.ip + 1, fp |-> 0]
             ELSE [ip |-> v.ip, fp |-> q2]

\* The digits of format(abs(v), ".<d>f")
MagStr(v, d, tie) ==
    LET m == RoundMag(v, d, tie)
    IN  NatStr(m.ip) \o (IF d = 0 THEN "" ELSE "." \o ZFill(NatStr(m.fp), d))

\* f"{v:+.<d>f}"
FmtPlus(v, d, tie) == (IF v.neg THEN "-" ELSE "+") \o MagStr(v, d, tie)

\* f"{v:+0<w>.<d>f}"
FmtPlusZero(v, w, d, tie) ==
    (IF v.neg THEN "-" ELSE "+") \o ZFill(MagStr(v, d, tie), w - 1)

\* f"{v:0<w>.<d>f}"
FmtZero(v, w, d, tie) ==
    IF v.neg THEN "-" \o ZFill(MagStr(v, d, tie), w - 1)
    ELSE ZFill(MagStr(v, d, tie), w)

-----------------------------------------------------------------------------
(* tools/generate_scan_7MeV.py: fmt_f8                                     *)

\* Mutant: the fallback precision used for every value.
fmt_f8_uncut_lowprec(v, decimal_places, tie) == Ljust(FmtPlus(v, 2, tie), 8)

\* res just before the return statement.  decimal_places only feeds s, which
\* is computed and never used.
fmt_f8_uncut(v, decimal_places, tie) ==
    LET s    == FmtPlus(v, decimal_places, tie)
        res3 == FmtPlus(v, 3, tie)
    IN  IF Len(res3) < 8 THEN Ljust(res3, 8)
        ELSE IF Len(res3) > 8 THEN Ljust(FmtPlus(v, 2, tie), 8)
        ELSE res3

\* Mutant: the final slice left out.
fmt_f8_res_nocut(v, decimal_places, tie) == fmt_f8_uncut(v, decimal_places, tie)

\* return res[:8]
fmt_f8_res(v, decimal_places, tie) == Prefix(fmt_f8_uncut(v, decimal_places, tie), 8)

\* The function returns a string and nothing else: it raises nothing for a
\* numeric val and has no channel on which a warning could reach the caller.
fmt_f8(v, decimal_places, tie) ==
    [result |-> fmt_f8_res(v, decimal_places, tie),
     raised |-> FALSE,
     warnings |-> <<>>]

NoCall == [result |-> "", raised |-> FALSE, warnings |-> <<>>]

\* Values given to fmt_f8: every digit count up to MaxIntDigits + 1, and
\* fractional parts around every rounding boundary.
IntParts ==
    {0, 1, 15, 50, 90, 12345}
    \cup {Pow10(k) : k \in 1..MaxIntDigits}
    \cup {Pow10(k) - 1 : k \in 1..MaxIntDigits}

FracParts ==
    LET u == Pow10(ModelFracDigits - 3)
    IN  {a * u + b : a \in {0, 1, 4, 5, 9, 10, 100, 304, 500, 994, 995, 999},
                     b \in {0, 1, (u \div 2) - 1, u \div 2, (u \div 2) + 1, u - 1}}

FmtValues ==
    {Num(n, i, f, ModelFracDigits) : n \in BOOLEAN, i \in IntParts, f \in FracParts}

-----------------------------------------------------------------------------
(* tools/generate_input.py.  Energies are integers in units of 0.001 MeV;  *)
(* the proton depths are in units of 10^-6 MeV and the deuteron depth in   *)
(* units of 10^-5 MeV, so that the products with the slopes are exact.     *)

FIXED_PARAMS ==
    [control_code_bound   |-> "1001000000200000",
     control_code_unbound |-> "1011000030000000",
     reaction |-> "36S(d,p)@ 8MeV",
     p1_card1 |-> "+08.000  2.0     1.0    36.0    16.0    001.303                  2.0    ",
     p1_card2 |-> "+01.    -92.976 +01.150 +00.761         -01.602 +01.335 +00.525 ",
     p1_card3 |-> "+02.    +00.000 +00.000 +00.000         +42.340 +01.380 +00.736 ",
     p1_card4 |-> "-04.    -14.228 +00.972 +01.011         +00.000 +00.000 +00.000 ",
     p2_card2 |-> "+01.    -56.249 +01.182 +00.672         -00.786 +01.182 +00.672 ",
     p2_card3 |-> "+02.    +00.000 +00.000 +00.000         +34.836 +01.290 +00.538 ",
     p2_card4 |-> "-04.    -22.456 +00.991 +00.590         +00.156 +00.991 +00.590 ",
     p3_card2 |-> "-01.    -01.    +01.28  +00.65  24.0",
     p3_mass  |-> "1.0     0.0    36.0    16.0    +01.30                  +01.    "]

\* str(n) for an int
IntStr(n) == IF n < 0 THEN "-" \o NatStr(-n) ELSE NatStr(n)

\* f"{n:02d}", and f"{n:02.0f}" for an int n
Int02(n) == IF n < 0 THEN "-" \o ZFill(NatStr(-n), 1) ELSE ZFill(NatStr(n), 2)

\* Mutant: the reference energy of the deuteron model (8.0) used for the proton.
proton_depths_eref8(E_proton) ==
    LET dE == E_proton - 8000
    IN  [V_real |-> -56249000 + 405 * dE, W_surf |-> 34836000 + (-415) * dE,
         VSO_real |-> -786000 + 81 * dE, WSO_imag |-> 156000 + (-19) * dE]

\* calculate_proton_optical_model, the depths: reference energy and depths,
\* slopes, and depth = depth_ref + slope * dE.
proton_depths(E_proton) ==
    LET E_ref        == 9438
        V_real_ref   == -56249000
        W_surf_ref   == 34836000
        VSO_real_ref == -786000
        WSO_imag_ref == 156000
        dV_dE   == 405
        dW_dE   == -415
        dVSO_dE == 81
        dWSO_dE == -19
        dE == E_proton - E_ref
    IN  [V_real   |-> V_real_ref + dV_dE * dE,
         W_surf   |-> W_surf_ref + dW_dE * dE,
         VSO_real |-> VSO_real_ref + dVSO_dE * dE,
         WSO_imag |-> WSO_imag_ref + dWSO_dE * dE]

\* f"{x:+07.3f}" of a depth in units of 10^-fd
Depth(x, fd, tie) == FmtPlusZero(NumOf(x, fd), 7, 3, tie)

\* calculate_proton_optical_model: the three cards and the depths.
calculate_proton_optical_model(E_proton, tie) ==
    LET d == proton_depths(E_proton)
    IN  [card2 |-> "+01.    " \o Depth(d.V_real, 6, tie.V_real)
                   \o " +01.182 +00.672         "
                   \o Depth(d.VSO_real, 6, tie.VSO_real) \o " +01.182 +00.672 ",
         card3 |-> "+02.    +00.000 +00.000 +00.000         "
                   \o Depth(d.W_surf, 6, tie.W_surf) \o " +01.290 +00.538 ",
         card4 |-> "-04.    -22.456 +00.991 +00.590         "
                   \o Depth(d.WSO_imag, 6, tie.WSO_imag) \o " +00.991 +00.590 ",
         depths |-> d]

\* Mutant: the slope with the sign it has in calculate_deuteron_optical_model.
calculate_deuteron_W_surface_plus(Q_value) == 4234000 + 169 * (Q_value - 2079)

calculate_deuteron_W_surface(Q_value) ==
    LET Q_ref   == 2079
        W_D_ref == 4234000
        dW_D_dQ == -169
        dQ == Q_value - Q_ref
    IN  W_D_ref + dW_D_dQ * dQ

\* Mutant: zero counted as bound.
is_bound_le(E_bind) == E_bind <= 0

is_bound(E_bind) == E_bind < 0

control_code(bound) ==
    IF bound THEN FIXED_PARAMS.control_code_bound ELSE FIXED_PARAMS.control_code_unbound

\* Mutant: the markers exchanged.
bound_marker_swapped(bound) == IF bound THEN "unbound ZR" ELSE "bound ZR"

bound_marker(bound) == IF bound THEN "bound ZR" ELSE "unbound ZR"

lmax(bound) == IF ~bound THEN 15 ELSE 30

\* Mutant: the sign of the unbound value lost.
rmax_positive(bound) == IF ~bound THEN 15000 ELSE 50000

rmax(bound) == IF ~bound THEN -15000 ELSE 50000

\* v >= 0 for a float v: true of both zeros.
GeZero(v) == ~v.neg \/ (v.ip = 0 /\ v.fp = 0)

\* The Q-value field: "+" and 06.3f for Q >= 0, +07.3f else.
Q_formatted(Q, tie) ==
    IF GeZero(Q) THEN "+" \o FmtZero(Q, 6, 3, tie)
    ELSE FmtPlusZero(Q, 7, 3, tie)

\* Card 9
p2_c1(Q, tie) ==
    Q_formatted(Q, tie)
    \o "  1.0     1.0    37.0    16.0    001.292                 +01.            "

\* The binding-energy field, formatted as the Q-value field is.
E_bind_formatted(E_bind, tie) ==
    IF GeZero(E_bind) THEN "+" \o FmtZero(E_bind, 6, 3, tie)
    ELSE FmtPlusZero(E_bind, 7, 3, tie)

\* Card 13
p3_c1(E_bind, tie) ==
    E_bind_formatted(E_bind, tie)
    \o "  1.0     0.0    36.0    16.0    +01.30                  +01.            "

\* The locals of format_state_block and the list it returns.
format_state_block(st, tie) ==
    LET E_bind == st.E_bind_MeV
        bound  == is_bound(E_bind)
        title  == control_code(bound) \o "    " \o FIXED_PARAMS.reaction \o "    "
                  \o IntStr(st.Ex_keV) \o " keV  " \o st.orbital \o " "
                  \o bound_marker(bound)
        L      == st.L
        j2     == st.j_times_2
        qn_card == "+" \o Int02(lmax(bound)) \o "+01+" \o Int02(L) \o "+" \o Int02(j2)
        integration == "+00.10  +00.    "
                       \o FmtPlusZero(NumOf(rmax(bound), 3), 4, 0, FALSE) \o "."
        p1_c1  == "+08.000  2.0     1.0    36.0    16.0    001.303                  2.0            "
        Q      == st.Q_MeV
        WD     == calculate_deuteron_W_surface(Q)
        p1_c2  == "+01.    -92.976 +01.150 +00.761         -01.602 +01.335 +00.525 "
        p1_c3  == "+02.    +00.000 +00.000 +00.000         "
                  \o Depth(WD, 5, tie.W_D) \o " +01.380 +00.736 "
        p1_c4  == "-04.    -14.228 +00.972 +01.011         +00.000 +00.000 +00.000 "
        pot    == calculate_proton_optical_model(st.E_proton_MeV, tie)
        p3_c2  == "-01.    -01.    +01.28  +00.65  24.0                                            "
        nodes  == st.nodes
        fisw   == 50000
        p3_c3  == "+" \o Int02(nodes) \o ".    +" \o Int02(L) \o ".    +" \o Int02(j2)
                  \o ".    +01.    " \o FmtPlusZero(NumOf(fisw, 3), 5, 1, FALSE)
                  \o "   +00.    +00.00"
    IN  [opt_pot |-> pot,
         W_D     |-> WD,
         lines   |-> << Ljust(title, 80),
                        "+90.    +00.    +01.                                                            ",
                        Ljust(qn_card, 80),
                        Ljust(integration, 80),
                        p1_c1, p1_c2, p1_c3, p1_c4,
                        p2_c1(NumOf(Q, 3), FALSE),
                        pot.card2, pot.card3, pot.card4,
                        p3_c1(NumOf(E_bind, 3), FALSE),
                        p3_c2, Ljust(p3_c3, 80) >>]

-----------------------------------------------------------------------------
(* tools/generate_scan_7MeV.py: format_state                               *)

get_base_parameters ==
    [title_base |-> "36S(d,p)@ 16MeV",
     Q_gs  |-> 2079,
     BE_gs |-> -4304,
     p1_card1 |-> "+16.000  2.0     1.0    36.0    16.0    001.303                  2.0            ",
     p1_card2 |-> "+01.    -92.976 +01.150 +00.761         -01.602 +01.335 +00.525 ",
     p1_card3 |-> "+02.    +00.000 +00.000 +00.000         +42.340 +01.380 +00.736 ",
     p1_card4 |-> "-04.    -14.228 +00.972 +01.011         +00.000 +00.000 +00.000 ",
     p2_card2 |-> "+01.    -56.249 +01.182 +00.672         -00.786 +01.182 +00.672 ",
     p2_card3 |-> "+02.    +00.000 +00.000 +00.000         +34.836 +01.290 +00.538 ",
     p2_card4 |-> "-04.    -22.456 +00.991 +00.590         +00.156 +00.991 +00.590 ",
     p3_card2 |-> "-01.    -01.    +01.28  +00.65  24.0                                            ",
     p3_mass  |-> "1.0     0.0    36.0    16.0    +01.30                  +01.    ",
     L |-> 3, J2 |-> 7, Nodes |-> 0]

\* fmt_f8 of a value given in units of 0.001, called with the default
\* decimal_places
F8(x) == fmt_f8(NumOf(x, 3), 3, FALSE).result

\* f"{n:+03d}"
IntPlus03(n) == (IF n < 0 THEN "-" ELSE "+") \o ZFill(NatStr(Abs(n)), 2)

scan_is_bound(be_val) == be_val < 0

scan_control(bound) == IF bound THEN "1001000000200000" ELSE "1011000030000000"

scan_comment(bound) == IF bound THEN "bound ZR" ELSE "unbound ZR"

scan_lmax_val(bound) == IF bound THEN 30 ELSE 15

scan_rmax(bound) == IF bound THEN 50000 ELSE -15000

format_state(ex, params) ==
    LET q_val  == params.Q_gs - ex
        be_val == params.BE_gs + ex
        bound  == scan_is_bound(be_val)
        card1_ctrl == Ljust(scan_control(bound), 20)
        title_str  == params.title_base \o "    " \o IntStr(ex) \o " keV  0f7/2 "
                      \o scan_comment(bound)
        c2 == F8(90000) \o F8(0) \o F8(1000)
        c3 == IntPlus03(scan_lmax_val(bound)) \o IntPlus03(1)
              \o IntPlus03(params.L) \o IntPlus03(params.J2)
        c4 == F8(100) \o F8(0) \o F8(scan_rmax(bound))
        p2_rest == "  1.0     1.0    37.0    16.0    001.292                 +01.            "
        c_last == F8(params.Nodes * 1000) \o F8(params.L * 1000) \o F8(params.J2 * 1000)
                  \o F8(1000) \o F8(50000) \o F8(0) \o F8(0)
    IN  << Ljust(card1_ctrl \o title_str, 80),
           Ljust(c2, 80),
           Ljust(c3, 80),
           Ljust(c4, 80),
           params.p1_card1, params.p1_card2, params.p1_card3, params.p1_card4,
           F8(q_val) \o p2_rest,
           params.p2_card2, params.p2_card3, params.p2_card4,
           F8(be_val) \o "  " \o params.p3_mass,
           params.p3_card2,
           Ljust(c_last, 80) >>

-----------------------------------------------------------------------------
(* The encoders applied to one state.                                      *)

\* Scenario A of the specification: the ground state.
ScenarioA ==
    [Ex_keV |-> 0, orbital |-> "0f7/2", L |-> 3, j_times_2 |-> 7, nodes |-> 0,
     Q_MeV |-> 2079, E_bind_MeV |-> -4304, E_proton_MeV |-> 9438]

\* The CSV rows given to format_state_block.
States ==
    [Ex_keV : {0, 646}, orbital : {"0f7/2", "1p3/2"}, L : {1, 3},
     j_times_2 : {3, 7}, nodes : {0, 1},
     Q_MeV : {2079, 1434, 2129, 0, -123, -3000},
     E_bind_MeV : {-4304, -500, -1, 0, 1, 500},
     E_proton_MeV : {9438, 8793, 9538, 7000, 12000}]

\* Rows whose orbital column holds a longer text (the column is free text),
\* at a small and at a large excitation energy.
TitleStates ==
    {[ScenarioA EXCEPT !.orbital = o, !.Ex_keV = e] :
        o \in {"0f7/2 + 1p3/2", "0f7/2 (tentative, ref. 12)"}, e \in {0, 12345}}

\* The excitation energies given to format_state: those of main, and the
\* neighbourhood of the threshold BE_gs + ex_mev = 0.
ExValues == {1000 * k : k \in 0..7} \cup {500, 2079, 4303, 4304, 4305}

Channels == {"V_real", "W_surf", "VSO_real", "WSO_imag", "W_D"}

NoTies == [c \in Channels |-> FALSE]

\* x (in units of 10^-fd) lies half way between two renderings with 3 decimals
IsTie(x, fd) == (Abs(x) % Pow10(fd - 3)) * 2 = Pow10(fd - 3)

\* The depths of a row that lie on a decimal tie: only there does the side of
\* the float matter.
TieChannels(st) ==
    LET d == proton_depths(st.E_proton_MeV)
    IN  {c \in Channels \ {"W_D"} : IsTie(d[c], 6)}
        \cup {c \in {"W_D"} : IsTie(calculate_deuteron_W_surface(st.Q_MeV), 5)}

\* Nothing encoded yet.
NoBlock ==
    /\ opt_pot = [card2 |-> "", card3 |-> "", card4 |-> "",
                  depths |-> [V_real |-> 0, W_surf |-> 0, VSO_real |-> 0, WSO_imag |-> 0]]
    /\ W_D = 0
    /\ lines = <<>>

\* No batch run and no decoder run modelled.
NoGen ==
    /\ csv = <<>>
    /\ gen = [states |-> <<>>, i |-> 0, result |-> "none"]
    /\ out_file = [exists |-> FALSE, content |-> <<>>]

NoDec ==
    /\ doc = <<>>
    /\ dec = [parser |-> "none"]

\* No call of fmt_f8 modelled on its own.
NoFmt ==
    /\ val = NumOf(0, 3)
    /\ places = 3
    /\ tieUp = FALSE
    /\ fmt_out = NoCall

Init ==
    /\ NoFmt
    /\ NoBlock
    /\ NoGen
    /\ NoDec
    /\ \/ /\ pc = "call format_state_block"
          /\ state \in States \cup TitleStates
          /\ ties \in {t \in [Channels -> BOOLEAN] :
                           \A c \in Channels : t[c] => c \in TieChannels(state)}
          /\ ex_mev = 0
       \/ /\ pc = "call format_state"
          /\ state = ScenarioA
          /\ ties = NoTies
          /\ ex_mev \in ExValues

Call_format_state_block ==
    /\ pc = "call format_state_block"
    /\ pc' = "format_state_block"
    /\ \E r \in {format_state_block(state, ties)} :
           /\ opt_pot' = r.opt_pot
           /\ W_D' = r.W_D
           /\ lines' = r.lines
    /\ UNCHANGED <<val, places, tieUp, ties, fmt_out, state, ex_mev, genVars, decVars>>

Call_format_state ==
    /\ pc = "call format_state"
    /\ pc' = "format_state"
    /\ lines' = format_state(ex_mev, get_base_parameters)
    /\ UNCHANGED <<val, places, tieUp, ties, fmt_out, state, ex_mev, opt_pot, W_D,
                   genVars, decVars>>

Next == Call_format_state_block \/ Call_format_state

Spec == Init /\ [][Next]_vars

-----------------------------------------------------------------------------
(* fmt_f8 applied to one value.                                            *)

InitFmt ==
    /\ pc = "call fmt_f8"
    /\ val \in FmtValues
    /\ places \in 0..MaxPlaces
    /\ tieUp \in BOOLEAN
    /\ fmt_out = NoCall
    /\ ties = NoTies
    /\ state = ScenarioA
    /\ ex_mev = 0
    /\ NoBlock
    /\ NoGen
    /\ NoDec

Call_fmt_f8 ==
    /\ pc = "call fmt_f8"
    /\ pc' = "fmt_f8"
    /\ fmt_out' = fmt_f8(val, places, tieUp)
    /\ UNCHANGED <<val, places, tieUp, ties, state, ex_mev, opt_pot, W_D, lines,
                   genVars, decVars>>

NextFmt == Call_fmt_f8

SpecFmt == InitFmt /\ [][NextFmt]_vars

-----------------------------------------------------------------------------
(* The Q-value card and the binding-energy card of one float.              *)

\* The values of the Q_MeV and E_bind_MeV columns: both signs and both zeros,
\* magnitudes on both sides of 100, with up to four decimals.
SignValues ==
    {Num(n, i, f, ModelFracDigits) :
        n \in BOOLEAN, i \in {0, 2, 4, 9, 10, 99, 100},
        f \in {0, 1, 5, 790, 3040, 9994, 9995, 9996}}

InitSign ==
    /\ pc = "call p2_c1, p3_c1"
    /\ val \in SignValues
    /\ tieUp \in {t \in BOOLEAN : t => val.fp % 10 = 5}
    /\ places = 3
    /\ fmt_out = NoCall
    /\ ties = NoTies
    /\ state = ScenarioA
    /\ ex_mev = 0
    /\ NoBlock
    /\ NoGen
    /\ NoDec

\* Lines 268-298 of format_state_block for Q = E_bind = val.
Call_signed_cards ==
    /\ pc = "call p2_c1, p3_c1"
    /\ pc' = "p2_c1, p3_c1"
    /\ lines' = << p2_c1(val, tieUp), p3_c1(val, tieUp) >>
    /\ UNCHANGED <<val, places, tieUp, ties, fmt_out, state, ex_mev, opt_pot, W_D,
                   genVars, decVars>>

NextSign == Call_signed_cards

SpecSign == InitSign /\ [][NextSign]_vars

-----------------------------------------------------------------------------
(* tools/generate_input.py: read_states and generate_input_file;           *)
(* tools/generate_scan_7MeV.py: main.                                      *)

\* Largest number of rows of the CSV file.
MaxRows == 3

\* A row of the CSV file.  kind says what the text of its columns is:
\*   "state"   every column holds the number given in st;
\*   "blank"   the Ex_keV column is empty or missing;
\*   "comment" the Ex_keV column starts with '#';
\*   "invalid" Ex_keV is there, and a column read by int() or float() is
\*             missing or holds text that is not a number.
Row(kind, st) == [kind |-> kind, st |-> st]

GenStates ==
    { ScenarioA,
      [Ex_keV |-> 646, orbital |-> "1p3/2", L |-> 1, j_times_2 |-> 3, nodes |-> 1,
       Q_MeV |-> 1434, E_bind_MeV |-> -500, E_proton_MeV |-> 8793],
      [Ex_keV |-> 4804, orbital |-> "0f5/2", L |-> 3, j_times_2 |-> 5, nodes |-> 0,
       Q_MeV |-> -3000, E_bind_MeV |-> 500, E_proton_MeV |-> 7000] }

CsvRows ==
    {Row("state", st) : st \in GenStates}
    \cup {Row(k, ScenarioA) : k \in {"blank", "comment", "invalid"}}

RECURSIVE SeqsUpTo(_, _)
SeqsUpTo(S, n) ==
    IF n = 0 THEN {<<>>}
    ELSE LET shorter == SeqsUpTo(S, n - 1)
         IN  shorter \cup {Append(q, x) : q \in {r \in shorter : Len(r) = n - 1}, x \in S}

\* The rows read_states keeps.
keeps_row(row) == row.kind \notin {"blank", "comment"}

read_states(csv_file) == SelectSeq(csv_file, keeps_row)

\* int(state[...]) or float(state[...]) raises in format_state_block.
format_state_block_raises(row) == row.kind = "invalid"

END_OF_DATA == "9                   END OF DATA for DWUCK4"

\* Mutant: the last card of a block is not written.
write_block_short(content, block) == content \o SubSeq(block, 1, Len(block) - 1)

\* for line in block: f.write(line + '\n')
write_block(content, block) == content \o block

\* The output file before the run: absent, or left by an earlier run.
NoFile == [exists |-> FALSE, content |-> <<>>]
OldFile == [exists |-> TRUE, content |-> <<"old", END_OF_DATA>>]

InitGen ==
    /\ NoFmt
    /\ NoBlock
    /\ NoDec
    /\ state = ScenarioA
    /\ ties = NoTies
    /\ ex_mev = 0
    /\ gen = [states |-> <<>>, i |-> 0, result |-> "none"]
    /\ out_file \in {NoFile, OldFile}
    /\ \/ /\ pc = "call generate_input_file"
          /\ csv \in SeqsUpTo(CsvRows, MaxRows)
       \/ /\ pc = "call main"
          /\ csv = <<>>

encVars == <<val, places, tieUp, ties, fmt_out, state, ex_mev, opt_pot, W_D, lines>>

\* states = read_states(csv_file); the early return when there is none.
Gen_read_states ==
    /\ pc = "call generate_input_file"
    /\ \E sts \in {read_states(csv)} :
           IF sts = <<>>
           THEN /\ gen' = [states |-> sts, i |-> 0, result |-> "False"]
                /\ pc' = "generate_input_file"
           ELSE /\ gen' = [states |-> sts, i |-> 0, result |-> "none"]
                /\ pc' = "open"
    /\ UNCHANGED <<encVars, csv, out_file, decVars>>

\* with open(output_file, 'w') as f
Gen_open ==
    /\ pc = "open"
    /\ out_file' = [exists |-> TRUE, content |-> <<>>]
    /\ gen' = [gen EXCEPT !.i = 1]
    /\ pc' = "for state"
    /\ UNCHANGED <<encVars, csv, decVars>>

\* One iteration of the loop: the block of the state is built and written.
Gen_write_block ==
    /\ pc = "for state"
    /\ gen.i <= Len(gen.states)
    /\ ~format_state_block_raises(gen.states[gen.i])
    /\ \E block \in {format_state_block(gen.states[gen.i].st, NoTies).lines} :
           out_file' = [out_file EXCEPT !.content = write_block(@, block)]
    /\ gen' = [gen EXCEPT !.i = @ + 1]
    /\ UNCHANGED <<pc, encVars, csv, decVars>>

\* One iteration of the loop: format_state_block raises, nothing catches the
\* exception, the with statement closes the file as it is.
Gen_raise ==
    /\ pc = "for state"
    /\ gen.i <= Len(gen.states)
    /\ format_state_block_raises(gen.states[gen.i])
    /\ gen' = [gen EXCEPT !.result = "raised"]
    /\ pc' = "generate_input_file"
    /\ UNCHANGED <<encVars, csv, out_file, decVars>>

\* After the loop: the end marker, and return True.
Gen_end_marker ==
    /\ pc = "for state"
    /\ gen.i > Len(gen.states)
    /\ out_file' = [out_file EXCEPT !.content = Append(@, END_OF_DATA)]
    /\ gen' = [gen EXCEPT !.result = "True"]
    /\ pc' = "generate_input_file"
    /\ UNCHANGED <<encVars, csv, decVars>>

\* main of the scan: with open(output_file, 'w') as f
Main_open ==
    /\ pc = "call main"
    /\ out_file' = [exists |-> TRUE, content |-> <<>>]
    /\ gen' = [gen EXCEPT !.i = 0]
    /\ pc' = "for ex"
    /\ UNCHANGED <<encVars, csv, decVars>>

\* for ex in range(8): the block of format_state(float(ex), params) is written
Main_write_block ==
    /\ pc = "for ex"
    /\ gen.i < 8
    /\ \E state_lines \in {format_state(1000 * gen.i, get_base_parameters)} :
           out_file' = [out_file EXCEPT !.content = write_block(@, state_lines)]
    /\ gen' = [gen EXCEPT !.i = @ + 1]
    /\ UNCHANGED <<pc, encVars, csv, decVars>>

Main_end_marker ==
    /\ pc = "for ex"
    /\ gen.i = 8
    /\ out_file' = [out_file EXCEPT !.content = Append(@, END_OF_DATA)]
    /\ gen' = [gen EXCEPT !.result = "None"]
    /\ pc' = "main"
    /\ UNCHANGED <<encVars, csv, decVars>>

NextGen ==
    \/ Gen_read_states
    \/ Gen_open
    \/ Gen_write_block
    \/ Gen_raise
    \/ Gen_end_marker
    \/ Main_open
    \/ Main_write_block
    \/ Main_end_marker

SpecGen == InitGen /\ [][NextGen]_vars

-----------------------------------------------------------------------------
(* Reading a card field back as a number.                                  *)

IsDigit(c) == c \in {"0", "1", "2", "3", "4", "5", "6", "7", "8", "9"}

DigitVal(c) == CHOOSE d \in 0..9 : Digit(d) = c

CharAt(s, i) == SubSeq(s, i, i)

\* The run of digits of s that starts at position i: its value, its length
\* and the position after it.
RECURSIVE ScanDigits(_, _, _, _)
ScanDigits(s, i, acc, cnt) ==
    IF i <= Len(s) /\ IsDigit(CharAt(s, i))
    THEN ScanDigits(s, i + 1, acc * 10 + DigitVal(CharAt(s, i)), cnt + 1)
    ELSE [v |-> acc, cnt |-> cnt, pos |-> i]

\* sign, digits, optional point and digits, then spaces only
ParseField(s) ==
    LET signed == Len(s) > 0 /\ CharAt(s, 1) \in {"+", "-"}
        a      == ScanDigits(s, IF signed THEN 2 ELSE 1, 0, 0)
        dot    == a.pos <= Len(s) /\ CharAt(s, a.pos) = "."
        b      == IF dot THEN ScanDigits(s, a.pos + 1, 0, 0)
                  ELSE [v |-> 0, cnt |-> 0, pos |-> a.pos]
    IN  [ok  |-> /\ a.cnt + b.cnt > 0
                 /\ \A i \in b.pos..Len(s) : CharAt(s, i) = " ",
         neg |-> signed /\ CharAt(s, 1) = "-",
         ip  |-> a.v, idigits |-> a.cnt,
         fp  |-> b.v, fd |-> b.cnt]

\* |a - b| in units of 10^-a.fd for a value a and a parsed field b of the same
\* sign with b.fd <= a.fd; any distance of 2 or more reads as 2 * 10^a.fd.
Dist(a, b) ==
    LET U  == Pow10(a.fd)
        bf == b.fp * Pow10(a.fd - b.fd)
    IN  IF a.neg = b.neg
        THEN IF Abs(a.ip - b.ip) > 1 THEN 2 * U
             ELSE Abs((a.ip - b.ip) * U + a.fp - bf)
        ELSE IF a.ip + b.ip > 1 THEN 2 * U
             ELSE (a.ip + b.ip) * U + a.fp + bf

-----------------------------------------------------------------------------
(* Python str, float, int and re operations used by the decoders.  A line  *)
(* is held without its newline; every test below treats the newline as    *)
(* the blank it is for strip, split and \s.                                *)

\* sub in s
Contains(s, sub) ==
    \E i \in 1..(Len(s) - Len(sub) + 1) : SubSeq(s, i, i + Len(sub) - 1) = sub

RECURSIVE RStrip(_)
RStrip(s) ==
    IF Len(s) > 0 /\ CharAt(s, Len(s)) = " " THEN RStrip(SubSeq(s, 1, Len(s) - 1)) ELSE s

EndsWith(s, suffix) ==
    Len(s) >= Len(suffix) /\ SubSeq(s, Len(s) - Len(suffix) + 1, Len(s)) = suffix

\* The first position >= i of s that holds no blank (Len(s) + 1 if none).
RECURSIVE SkipSpaces(_, _)
SkipSpaces(s, i) ==
    IF i <= Len(s) /\ CharAt(s, i) = " " THEN SkipSpaces(s, i + 1) ELSE i

\* The first position >= i of s that holds a blank (Len(s) + 1 if none).
RECURSIVE SkipToken(_, _)
SkipToken(s, i) ==
    IF i <= Len(s) /\ CharAt(s, i) # " " THEN SkipToken(s, i + 1) ELSE i

\* s.strip()
Strip(s) ==
    LET t == RStrip(s)
        a == SkipSpaces(t, 1)
    IN  IF a > Len(t) THEN "" ELSE SubSeq(t, a, Len(t))

\* s.split(): the runs of non-blank characters from position i on
RECURSIVE SplitFrom(_, _)
SplitFrom(s, i) ==
    LET a == SkipSpaces(s, i)
        b == SkipToken(s, a)
    IN  IF a > Len(s) THEN <<>> ELSE <<SubSeq(s, a, b - 1)>> \o SplitFrom(s, b)

Split(s) == SplitFrom(s, 1)

\* s.split(sep)[0]
RECURSIVE BeforeFirst(_, _, _)
BeforeFirst(s, sep, i) ==
    IF i + Len(sep) - 1 > Len(s) THEN s
    ELSE IF SubSeq(s, i, i + Len(sep) - 1) = sep THEN SubSeq(s, 1, i - 1)
    ELSE BeforeFirst(s, sep, i + 1)

IsSign(c) == c \in {"+", "-"}

\* s holds a sign at position i
SignAt(s, i) == i <= Len(s) /\ IsSign(CharAt(s, i))

\* s holds the letter of an exponent at position i
ExpAt(s, i) == i <= Len(s) /\ CharAt(s, i) \in {"e", "E"}

\* The digits after a point at position i of s, if there is one.
FracDigits(s, i) ==
    IF i <= Len(s) /\ CharAt(s, i) = "." THEN ScanDigits(s, i + 1, 0, 0)
    ELSE [v |-> 0, cnt |-> 0, pos |-> i]

\* The digits of an exponent at position i of s, if there is one.
ExpDigits(s, i) ==
    IF ExpAt(s, i) THEN ScanDigits(s, i + (IF SignAt(s, i + 1) THEN 2 ELSE 1), 0, 0)
    ELSE [v |-> 0, cnt |-> 1, pos |-> i]

\* float(tok), given the runs of digits a (integer part), b (after the
\* point) and c (exponent) found in tok.
float_parts(tok, a, b, c) ==
    [ok  |-> a.cnt + b.cnt > 0 /\ c.cnt > 0 /\ c.pos = Len(tok) + 1,
     neg |-> SignAt(tok, 1) /\ CharAt(tok, 1) = "-",
     ip  |-> a.v, fp |-> b.v, fd |-> b.cnt,
     exp |-> IF ExpAt(tok, b.pos) /\ SignAt(tok, b.pos + 1) /\ CharAt(tok, b.pos + 1) = "-"
             THEN -c.v ELSE c.v]

float_after_int(tok, a, b) == float_parts(tok, a, b, ExpDigits(tok, b.pos))

float_after_sign(tok, a) == float_after_int(tok, a, FracDigits(tok, a.pos))

\* float(tok): optional sign, digits with an optional point (digits on at
\* least one side of it), optional exponent; nothing else before or after
\* (inf, nan and digit-group underscores occur in no line modelled here).
\* The value is kept as the decimal it was written as.
ParseFloat(tok) ==
    float_after_sign(tok, ScanDigits(tok, IF SignAt(tok, 1) THEN 2 ELSE 1, 0, 0))

value_of(f) == [neg |-> f.neg, ip |-> f.ip, fp |-> f.fp, fd |-> f.fd, exp |-> f.exp]

\* The float a successful float(tok) returns.
float_of(tok) == value_of(ParseFloat(tok))

int_parts(tok, a) ==
    [ok |-> a.cnt > 0 /\ a.pos = Len(tok) + 1,
     v  |-> IF SignAt(tok, 1) /\ CharAt(tok, 1) = "-" THEN -a.v ELSE a.v]

\* int(tok): optional sign and digits
ParseInt(tok) == int_parts(tok, ScanDigits(tok, IF SignAt(tok, 1) THEN 2 ELSE 1, 0, 0))

decimal_parts(s, a, b) ==
    [ok |-> a.cnt > 0 /\ b.cnt > 0, end |-> b.pos]

decimal_after_int(s, a) ==
    decimal_parts(s, a, IF a.cnt > 0 THEN FracDigits(s, a.pos)
                        ELSE [v |-> 0, cnt |-> 0, pos |-> a.pos])

\* \d+\.\d+ matched at position i of s: whether it matches, and where it ends
MatchDecimal(s, i) == decimal_after_int(s, ScanDigits(s, i, 0, 0))

sci_parts(s, d, c) ==
    [ok |-> d.ok /\ ExpAt(s, d.end) /\ c.cnt > 0, end |-> c.pos]

sci_after_decimal(s, d) ==
    sci_parts(s, d, IF d.ok /\ ExpAt(s, d.end) THEN ExpDigits(s, d.end)
                    ELSE [v |-> 0, cnt |-> 0, pos |-> d.end])

\* [+-]?\d+\.\d+[Ee][+-]?\d+ matched at position i of s
MatchSci(s, i) == sci_after_decimal(s, MatchDecimal(s, IF SignAt(s, i) THEN i + 1 ELSE i))

\* re.match(r'^\s*\d+\.\d+', line)
row_start_match(line) == MatchDecimal(line, SkipSpaces(line, 1)).ok

\* The groups of data_match, given where the two numbers start (p, q) and
\* how they matched (d, x).
data_groups(line, p, d, q, x) ==
    IF d.ok /\ q > d.end /\ x.ok
    THEN [ok |-> TRUE, g1 |-> SubSeq(line, p, d.end - 1), g2 |-> SubSeq(line, q, x.end - 1)]
    ELSE [ok |-> FALSE, g1 |-> "", g2 |-> ""]

data_after_gap(line, p, d, q) == data_groups(line, p, d, q, MatchSci(line, q))

data_after_theta(line, p, d) == data_after_gap(line, p, d, SkipSpaces(line, d.end))

data_from(line, p) == data_after_theta(line, p, MatchDecimal(line, p))

\* re.match(r'^\s*(\d+\.\d+)\s+([+-]?\d+\.\d+[Ee][+-]?\d+)', line) and its groups
data_match(line) == data_from(line, SkipSpaces(line, 1))

\* re.compile(r'Theta', re.IGNORECASE) found at position i of s
header_re_at(s, i) ==
    /\ i + 4 <= Len(s)
    /\ CharAt(s, i) \in {"T", "t"}
    /\ CharAt(s, i + 1) \in {"H", "h"}
    /\ CharAt(s, i + 2) \in {"E", "e"}
    /\ CharAt(s, i + 3) \in {"T", "t"}
    /\ CharAt(s, i + 4) \in {"A", "a"}

\* header_re.search(line)
header_re_search(line) == \E i \in 1..Len(line) : header_re_at(line, i)

\* [0-9Ee.+-]
IsDataChar(c) == IsDigit(c) \/ c \in {"E", "e", ".", "+", "-"}

\* The end of the run of [0-9Ee.+-] that starts at position i of s.
RECURSIVE SkipDataChars(_, _)
SkipDataChars(s, i) ==
    IF i <= Len(s) /\ IsDataChar(CharAt(s, i)) THEN SkipDataChars(s, i + 1) ELSE i

\* The groups of data_re, given where the first number starts (p), its
\* integer digits (a), where it ends (e), and where the second group starts
\* (q) and ends (r).  The second group [+-]?[0-9Ee.+-]+ is any run of one or
\* more of the characters of its class, a sign being one of them.
data_re_groups(line, p, a, e, q, r) ==
    IF a.cnt > 0 /\ q > e /\ r > q
    THEN [ok |-> TRUE, g1 |-> SubSeq(line, p, e - 1), g2 |-> SubSeq(line, q, r - 1)]
    ELSE [ok |-> FALSE, g1 |-> "", g2 |-> ""]

data_re_after_gap(line, p, a, e, q) ==
    data_re_groups(line, p, a, e, q, SkipDataChars(line, q))

data_re_after_theta(line, p, a, e) ==
    data_re_after_gap(line, p, a, e, SkipSpaces(line, e))

\* [0-9]+(?:\.[0-9]*)? takes the point and the digits after it when they are
\* there: giving them back leaves the point where \s+ has to match.
data_re_after_int(line, p, a) ==
    data_re_after_theta(line, p, a,
        IF a.cnt > 0 /\ a.pos <= Len(line) /\ CharAt(line, a.pos) = "."
        THEN ScanDigits(line, a.pos + 1, 0, 0).pos ELSE a.pos)

data_re_from(line, p) ==
    data_re_after_int(line, p, ScanDigits(line, IF SignAt(line, p) THEN p + 1 ELSE p, 0, 0))

\* data_re.match(line), data_re being
\* re.compile(r'^\s*([+-]?[0-9]+(?:\.[0-9]*)?)\s+([+-]?[0-9Ee.+-]+)'), and its groups
data_re_match(line) == data_re_from(line, SkipSpaces(line, 1))

\* re.search(r'(\d+)\s*keV', title): the leftmost run of digits that blanks
\* and then keV follow; group 1 as int, and 0 when there is no match.
RECURSIVE ex_kev_from(_, _)
ex_kev_from(title, i) ==
    IF i > Len(title) THEN 0
    ELSE LET a == ScanDigits(title, i, 0, 0)
             k == SkipSpaces(title, a.pos)
         IN  IF a.cnt > 0 /\ k + 2 <= Len(title) /\ SubSeq(title, k, k + 2) = "keV"
             THEN a.v
             ELSE ex_kev_from(title, i + 1)

\* re.search(r'keV\s+(\S+)', title): group 1, and '' when there is no match.
RECURSIVE orbital_from(_, _)
orbital_from(title, i) ==
    IF i + 2 > Len(title) THEN ""
    ELSE LET a == SkipSpaces(title, i + 3)
         IN  IF SubSeq(title, i, i + 2) = "keV" /\ a > i + 3 /\ a <= Len(title)
             THEN SubSeq(title, a, SkipToken(title, a) - 1)
             ELSE orbital_from(title, i + 1)

\* The try block of the overlay parser: the last word before the first keV,
\* read by int(); ok is false when the block raises.
ex_kev_str(line) ==
    LET parts == Split(Strip(BeforeFirst(line, "keV", 1)))
    IN  IF parts = <<>> THEN [ok |-> FALSE, v |-> 0]
        ELSE ParseInt(parts[Len(parts)])

-----------------------------------------------------------------------------
(* The engine output read by the decoders.                                 *)

\* Largest number of pieces an output is put together from.
MaxSegs == 4

TitleA == " 36S(d,p)@ 8MeV    0 keV  0f7/2 bound ZR"
TitleB == " 36S(d,p)@ 8MeV    4804 keV  0f5/2 unbound ZR"
Header == "   Theta    Inelsig,fm**2"
Rule   == "   -----    -------------"
Row1   == "    0.00    1.2345E+01"
Row2   == "    5.00    9.8765E+00"
Row3   == "   10.00    1.0000E-01"
Row4   == "   15.00    2.5000E-02"
Row5   == "   20.00    3.0000E-03"
TotSig == "0Tot-sig     4.3210E+01"
Blank  == ""
Text   == " REACTION Q-VALUE  2.079"
\* a title whose energy is written with a decimal point
TitleC == " 36S(d,p)@ 8MeV    646.0 keV  1p3/2 bound ZR"
\* a row whose value lost the letter of its exponent, as the engine writes
\* exponents of three digits
OddRow == "   25.00    1.2345-100"
\* two numbers behind a word
Note   == " SIGMA  25.00  4.0000E-03"

\* The pieces: a title, a table (header and rows, with or without a rule
\* under the header), a row on its own, and the lines found between tables.
Segments ==
    { <<TitleA>>, <<TitleB>>,
      <<Header, Row1, Row2, Row3>>, <<Header, Rule, Row4>>,
      <<Row5>>, <<TotSig>>, <<Blank>>, <<Text>> }

RECURSIVE Flatten(_)
Flatten(q) == IF q = <<>> THEN <<>> ELSE Head(q) \o Flatten(Tail(q))

Outputs == {Flatten(q) : q \in SeqsUpTo(Segments, MaxSegs)}

\* The pieces of the outputs that hold the lines above as well.
Pieces ==
    { <<TitleA>>, <<TitleC>>,
      <<Header, Row1, Row2>>, <<Header, Row4>>, <<Header, Rule>>,
      <<Row5>>, <<OddRow>>, <<Note>>, <<TotSig>> }

PieceOutputs == {Flatten(q) : q \in SeqsUpTo(Pieces, MaxSegs)}

OutputLines == UNION {{seg[k] : k \in 1..Len(seg)} : seg \in Segments \cup Pieces}

\* What the decoders test and extract on one line, given parts =
\* line.strip().split(), dm = the match of the data-row pattern of
\* plot_bound_states.py and m2 = the match of data_re of plot_dwuck.py; try
\* tells whether both float() of its try block succeed, plain whether the
\* line can be the title of a series of plot_dwuck.py.
line_tests(line, parts, dm, m2) ==
    [reaction  |-> Contains(line, "36S(d,p)"),
     marker    |-> Contains(line, "bound ZR") \/ Contains(line, "unbound ZR"),
     keV       |-> Contains(line, "keV"),
     tot_sig   |-> Contains(line, "Tot-sig"),
     theta     |-> Contains(line, "Theta"),
     inelsig   |-> Contains(line, "Inelsig"),
     label     |-> Strip(line),
     ex_kev    |-> ex_kev_from(Strip(line), 1),
     orbital   |-> orbital_from(Strip(line), 1),
     ex        |-> ex_kev_str(line),
     row_start |-> row_start_match(line),
     data      |-> [ok |-> dm.ok, theta |-> float_of(dm.g1),
                    cross_section |-> float_of(dm.g2)],
     two       |-> Len(parts) >= 2,
     floats    |-> IF Len(parts) >= 2
                   THEN [ok  |-> ParseFloat(parts[1]).ok /\ ParseFloat(parts[2]).ok,
                         ang |-> float_of(parts[1]), xs |-> float_of(parts[2])]
                   ELSE [ok |-> FALSE, ang |-> float_of(""), xs |-> float_of("")],
     header    |-> header_re_search(line),
     m2        |-> [ok    |-> m2.ok,
                    try   |-> ParseFloat(m2.g1).ok /\ ParseFloat(m2.g2).ok,
                    theta |-> float_of(m2.g1), y |-> float_of(m2.g2)],
     plain     |-> Strip(line) # "" /\ CharAt(Strip(line), 1) # "0"]

\* Mutant: a word in front of the numbers of a line is passed over.
LineTests_after_word(line) ==
    line_tests(line,
               LET parts == Split(Strip(line))
               IN  IF parts # <<>> /\ ~ParseFloat(parts[1]).ok THEN Tail(parts) ELSE parts,
               data_match(line), data_re_match(line))

LineTests(line) ==
    line_tests(line, Split(Strip(line)), data_match(line), data_re_match(line))

\* The tests of every line of the outputs, computed once.
Tests == [line \in OutputLines |-> LineTests(line)]

-----------------------------------------------------------------------------
(* tools/plot_single_run.py and tools/plot_scan_overlay.py:                *)
(* parse_dwuck_output; tools/plot_bound_states.py: parse_dwuck4_output.    *)
(* Positions in lines count from 1.                                        *)

\* None, and a value that is not None
None == [none |-> TRUE]
Some(v) == [none |-> FALSE, v |-> v]

\* states[key] = (np.array(angles), np.array(xsecs)): a key already there
\* keeps its place and gets the new value, a new key goes last.
dict_set(states, key, angles, xsecs) ==
    IF \E k \in 1..Len(states) : states[k].key = key
    THEN [k \in 1..Len(states) |->
             IF states[k].key = key
             THEN [key |-> key, angles |-> angles, xsecs |-> xsecs]
             ELSE states[k]]
    ELSE Append(states, [key |-> key, angles |-> angles, xsecs |-> xsecs])

\* Mutant: the series of the last title is not saved at the end of the input.
save_last_state_never(d, current) == d.states

\* Mutant: the rows gathered before any title are saved as well, without a label.
save_last_state_unlabelled(d, current) ==
    IF d.angles # <<>>
    THEN dict_set(d.states, IF current.none THEN "" ELSE current.v, d.angles, d.xsecs)
    ELSE d.states

\* "Save last state" after the loop of the two line-by-line parsers
save_last_state(d, current) ==
    IF ~current.none /\ d.angles # <<>>
    THEN dict_set(d.states, current.v, d.angles, d.xsecs)
    ELSE d.states

\* Mutant: the angle of a row is stored before its value is converted.
after_title_angle_first(d, t) ==
    IF t.tot_sig THEN [d EXCEPT !.capture_data = FALSE]
    ELSE IF t.theta /\ t.inelsig THEN [d EXCEPT !.capture_data = TRUE]
    ELSE IF d.capture_data /\ t.two /\ t.row_start
         THEN [d EXCEPT !.angles = Append(@, t.floats.ang),
                        !.xsecs = IF t.floats.ok THEN Append(@, t.floats.xs) ELSE @]
    ELSE d

\* The body of the loop of both line-by-line parsers after the title test:
\* d holds the locals as the title branch left them.
after_title(d, t) ==
    IF t.tot_sig THEN [d EXCEPT !.capture_data = FALSE]
    ELSE IF t.theta /\ t.inelsig THEN [d EXCEPT !.capture_data = TRUE]
    ELSE IF d.capture_data /\ t.two /\ t.floats.ok
         THEN [d EXCEPT !.angles = Append(@, t.floats.ang),
                        !.xsecs = Append(@, t.floats.xs)]
    ELSE d

\* plot_single_run.py, one line of the loop
single_run_line(d, t) ==
    LET title == t.reaction /\ t.marker
        save  == title /\ ~d.current_label.none /\ d.angles # <<>>
        d1    == IF save
                 THEN [d EXCEPT !.states = dict_set(@, d.current_label.v, d.angles, d.xsecs),
                                !.angles = <<>>, !.xsecs = <<>>]
                 ELSE d
        d2    == IF title
                 THEN [d1 EXCEPT !.current_label = Some(t.label), !.capture_data = FALSE]
                 ELSE d1
    IN  after_title(d2, t)

\* plot_scan_overlay.py, one line of the loop; the energy is kept in keV
scan_overlay_line(d, t) ==
    LET title == t.reaction /\ t.keV
        save  == title /\ ~d.current_ex.none /\ d.angles # <<>>
        d1    == IF save
                 THEN [d EXCEPT !.states = dict_set(@, d.current_ex.v, d.angles, d.xsecs),
                                !.angles = <<>>, !.xsecs = <<>>]
                 ELSE d
        d2    == IF title
                 THEN [d1 EXCEPT !.current_ex = IF t.ex.ok THEN Some(t.ex.v) ELSE @,
                                 !.capture_data = FALSE]
                 ELSE d1
    IN  after_title(d2, t)

\* while j < len(lines) and 'Theta' not in lines[j]: j += 1
RECURSIVE skip_to_theta(_, _)
skip_to_theta(lines_, j) ==
    IF j <= Len(lines_) /\ ~Tests[lines_[j]].theta THEN skip_to_theta(lines_, j + 1) ELSE j

\* while j < len(lines) and not re.match(r'^\s*\d+\.\d+', lines[j]): j += 1
RECURSIVE skip_to_row(_, _)
skip_to_row(lines_, j) ==
    IF j <= Len(lines_) /\ ~Tests[lines_[j]].row_start THEN skip_to_row(lines_, j + 1) ELSE j

\* The loop over the data rows: it ends at the first line data_match rejects.
RECURSIVE parse_rows(_, _, _, _)
parse_rows(lines_, j, theta, cross_section) ==
    IF j <= Len(lines_) /\ Tests[lines_[j]].data.ok
    THEN parse_rows(lines_, j + 1, Append(theta, Tests[lines_[j]].data.theta),
                    Append(cross_section, Tests[lines_[j]].data.cross_section))
    ELSE [j |-> j, theta |-> theta, cross_section |-> cross_section]

\* Mutant: after a series the scan goes on behind the line that ended it.
next_i_skipping(j) == j + 1

\* Mutant: after a series the scan starts again at the first line.
next_i_restart(j) == 1

\* i = j
next_i(j) == j

\* plot_bound_states.py, one iteration of the outer loop
bound_states_step(d, lines_) ==
    LET t  == Tests[lines_[d.i]]
        j1 == skip_to_theta(lines_, d.i + 1)
        r  == parse_rows(lines_, skip_to_row(lines_, j1 + 1), <<>>, <<>>)
    IN  IF ~t.reaction \/ j1 > Len(lines_) THEN [d EXCEPT !.i = @ + 1]
        ELSE [d EXCEPT
                !.states = IF r.theta # <<>> /\ r.cross_section # <<>>
                           THEN Append(@, [title |-> t.label, ex_kev |-> t.ex_kev,
                                           orbital |-> t.orbital, theta |-> r.theta,
                                           cross_section |-> r.cross_section])
                           ELSE @,
                !.i = next_i(r.j)]

InitDec ==
    /\ NoFmt
    /\ NoBlock
    /\ NoGen
    /\ state = ScenarioA
    /\ ties = NoTies
    /\ ex_mev = 0
    /\ doc \in Outputs
    /\ \/ /\ pc = "plot_bound_states: while"
          /\ dec = [i |-> 1, states |-> <<>>]
       \/ /\ pc = "plot_single_run: for line"
          /\ dec = [i |-> 1, states |-> <<>>, current_label |-> None,
                    angles |-> <<>>, xsecs |-> <<>>, capture_data |-> FALSE]
       \/ /\ pc = "plot_scan_overlay: for line"
          /\ dec = [i |-> 1, states |-> <<>>, current_ex |-> None,
                    angles |-> <<>>, xsecs |-> <<>>, capture_data |-> FALSE]

Bound_step ==
    /\ pc = "plot_bound_states: while"
    /\ dec.i <= Len(doc)
    /\ dec' = bound_states_step(dec, doc)
    /\ UNCHANGED <<pc, encVars, genVars, doc>>

Bound_return ==
    /\ pc = "plot_bound_states: while"
    /\ dec.i > Len(doc)
    /\ pc' = "plot_bound_states"
    /\ UNCHANGED <<encVars, genVars, decVars>>

Single_line ==
    /\ pc = "plot_single_run: for line"
    /\ dec.i <= Len(doc)
    /\ dec' = [single_run_line(dec, Tests[doc[dec.i]]) EXCEPT !.i = @ + 1]
    /\ UNCHANGED <<pc, encVars, genVars, doc>>

Single_return ==
    /\ pc = "plot_single_run: for line"
    /\ dec.i > Len(doc)
    /\ dec' = [dec EXCEPT !.states = save_last_state(dec, dec.current_label)]
    /\ pc' = "plot_single_run"
    /\ UNCHANGED <<encVars, genVars, doc>>

Overlay_line ==
    /\ pc = "plot_scan_overlay: for line"
    /\ dec.i <= Len(doc)
    /\ dec' = [scan_overlay_line(dec, Tests[doc[dec.i]]) EXCEPT !.i = @ + 1]
    /\ UNCHANGED <<pc, encVars, genVars, doc>>

Overlay_return ==
    /\ pc = "plot_scan_overlay: for line"
    /\ dec.i > Len(doc)
    /\ dec' = [dec EXCEPT !.states = save_last_state(dec, dec.current_ex)]
    /\ pc' = "plot_scan_overlay"
    /\ UNCHANGED <<encVars, genVars, doc>>

NextDec ==
    \/ Bound_step
    \/ Bound_return
    \/ Single_line
    \/ Single_return
    \/ Overlay_line
    \/ Overlay_return

SpecDec == InitDec /\ [][NextDec]_vars

-----------------------------------------------------------------------------
(* tools/plot_dwuck.py: parse_output; and the main of every decoder, up to *)
(* its test of what the parser returned.                                   *)

\* The scan for the first data line: while j < len(lines), j += 1 on every
\* line data_re does not match.
RECURSIVE skip_to_data(_, _)
skip_to_data(lines_, j) ==
    IF j <= Len(lines_) /\ ~Tests[lines_[j]].m2.ok THEN skip_to_data(lines_, j + 1) ELSE j

\* The loop over contiguous numeric lines: it ends at the first line data_re
\* does not match or whose groups float() rejects.
RECURSIVE read_series(_, _, _, _)
read_series(lines_, j, thetas, ys) ==
    IF j <= Len(lines_) /\ Tests[lines_[j]].m2.ok /\ Tests[lines_[j]].m2.try
    THEN read_series(lines_, j + 1, Append(thetas, Tests[lines_[j]].m2.theta),
                     Append(ys, Tests[lines_[j]].m2.y))
    ELSE [j |-> j, thetas |-> thetas, ys |-> ys]

\* for k in range(max(0, i-6), i): the first line that is not empty and does
\* not start with '0' gives the title, and the loop breaks.
RECURSIVE title_from(_, _, _)
title_from(lines_, k, i) ==
    IF k >= i THEN ""
    ELSE IF Tests[lines_[k]].plain THEN Tests[lines_[k]].label
    ELSE title_from(lines_, k + 1, i)

\* The title of the series whose header is line i.
series_title(lines_, i) ==
    LET title == title_from(lines_, IF i - 6 > 1 THEN i - 6 ELSE 1, i)
    IN  IF title = "" THEN "Series starting line " \o NatStr(i) ELSE title

\* plot_dwuck.py, one iteration of the outer loop of parse_output
parse_output_step(d, lines_) ==
    LET r == read_series(lines_, skip_to_data(lines_, d.i + 1), <<>>, <<>>)
    IN  IF Tests[lines_[d.i]].header /\ r.thetas # <<>>
        THEN [d EXCEPT !.series = Append(@, [title |-> series_title(lines_, d.i),
                                             theta |-> r.thetas, y |-> r.ys]),
                       !.i = r.j]
        ELSE [d EXCEPT !.i = @ + 1]

InitParse ==
    /\ NoFmt
    /\ NoBlock
    /\ NoGen
    /\ state = ScenarioA
    /\ ties = NoTies
    /\ ex_mev = 0
    /\ doc \in PieceOutputs
    /\ \/ /\ pc = "plot_bound_states: while"
          /\ dec = [i |-> 1, states |-> <<>>]
       \/ /\ pc = "plot_single_run: for line"
          /\ dec = [i |-> 1, states |-> <<>>, current_label |-> None,
                    angles |-> <<>>, xsecs |-> <<>>, capture_data |-> FALSE]
       \/ /\ pc = "plot_scan_overlay: for line"
          /\ dec = [i |-> 1, states |-> <<>>, current_ex |-> None,
                    angles |-> <<>>, xsecs |-> <<>>, capture_data |-> FALSE]
       \/ /\ pc = "plot_dwuck: while"
          /\ dec = [i |-> 1, series |-> <<>>]

Dwuck_step ==
    /\ pc = "plot_dwuck: while"
    /\ dec.i <= Len(doc)
    /\ dec' = parse_output_step(dec, doc)
    /\ UNCHANGED <<pc, encVars, genVars, doc>>

Dwuck_return ==
    /\ pc = "plot_dwuck: while"
    /\ dec.i > Len(doc)
    /\ pc' = "plot_dwuck"
    /\ UNCHANGED <<encVars, genVars, decVars>>

\* What main does with the collection the parser returned: a message and
\* sys.exit(1) when it is empty (exit holds the status), the plot otherwise.
main_after_parse(name, collection, message, status) ==
    IF collection = <<>>
    THEN /\ dec' = [states |-> collection, printed |-> message, exit |-> status]
         /\ pc' = name \o ": main ends"
    ELSE /\ dec' = dec
         /\ pc' = name \o ": plot"

\* plot_bound_states.py, main
Bound_main ==
    /\ pc = "plot_bound_states"
    /\ main_after_parse("plot_bound_states", dec.states,
                        "Error: No states found in output file", 1)
    /\ UNCHANGED <<encVars, genVars, doc>>

\* plot_single_run.py, main
Single_main ==
    /\ pc = "plot_single_run"
    /\ main_after_parse("plot_single_run", dec.states, "No states found in output.", 1)
    /\ UNCHANGED <<encVars, genVars, doc>>

\* plot_scan_overlay.py, main
Overlay_main ==
    /\ pc = "plot_scan_overlay"
    /\ main_after_parse("plot_scan_overlay", dec.states, "No states found in output.", 1)
    /\ UNCHANGED <<encVars, genVars, doc>>

\* plot_dwuck.py, main: it returns after the message, the status is 0
Dwuck_main ==
    /\ pc = "plot_dwuck"
    /\ main_after_parse("plot_dwuck", dec.series, "No series found in input. Exiting.", 0)
    /\ UNCHANGED <<encVars, genVars, doc>>

NextParse ==
    \/ Bound_step
    \/ Bound_return
    \/ Bound_main
    \/ Single_line
    \/ Single_return
    \/ Single_main
    \/ Overlay_line
    \/ Overlay_return
    \/ Overlay_main
    \/ Dwuck_step
    \/ Dwuck_return
    \/ Dwuck_main

SpecParse == InitParse /\ [][NextParse]_vars

-----------------------------------------------------------------------------
(* Claims about fmt_f8 (specification SpecFmt).                            *)

fmt_done == pc = "fmt_f8"

\* C1: fmt_f8 returns exactly 8 characters for every value: a rendering
\* shorter than 8 is followed by spaces only, a longer one is cut.
C1_Width8 ==
    fmt_done =>
        LET r3 == FmtPlus(val, 3, tieUp)
            r2 == FmtPlus(val, 2, tieUp)
            r  == fmt_out.result
        IN  /\ Len(r) = 8
            /\ Len(r3) <= 8 => /\ SubSeq(r, 1, Len(r3)) = r3
                               /\ \A i \in (Len(r3) + 1)..8 : CharAt(r, i) = " "
            /\ Len(r3) > 8 /\ Len(r2) >= 8 => r = SubSeq(r2, 1, 8)

\* C1 witness: a value whose fallback rendering is still longer than the field
\* has been formatted.
C1_Witness == fmt_done /\ Len(FmtPlus(val, 2, tieUp)) > 8 /\ Len(fmt_out.result) = 8

\* C2 as stated: for |v| < 10^6 the field has length 8 and reads back within
\* 0.001 of v.
C2_Original ==
    fmt_done /\ val.ip < Pow10(6) =>
        LET f == ParseField(fmt_out.result)
        IN  /\ Len(fmt_out.result) = 8
            /\ f.ok
            /\ Dist(val, f) * 1000 <= Pow10(val.fd)

\* |v| < 999.9995: the values whose 3-decimal rendering fits the field.
C2_Fits3 == val.ip < 999 \/ (val.ip = 999 /\ val.fp * 10000 < 9995 * Pow10(val.fd))

\* C2 amended: for |v| < 999.9995 the field has length 8 and reads back within
\* 0.001 of v; for the other |v| < 10^6 the length is 8 and the field reads
\* back within 1 of v.
C2_RoundTrip ==
    fmt_done /\ val.ip < Pow10(6) =>
        LET f == ParseField(fmt_out.result)
        IN  /\ Len(fmt_out.result) = 8
            /\ f.ok
            /\ C2_Fits3 => Dist(val, f) * 1000 <= Pow10(val.fd)
            /\ Dist(val, f) < Pow10(val.fd)

\* C2 witness: a value with a fourth decimal has been formatted at full
\* precision and the field differs from it.
C2_Witness ==
    /\ fmt_done /\ C2_Fits3 /\ val.ip = 999
    /\ Dist(val, ParseField(fmt_out.result)) > 0

\* The final slice removed characters of the number (not padding).
C3_CutLostDigits ==
    LET u == fmt_f8_uncut(val, places, tieUp)
    IN  Len(u) > 8 /\ \E i \in 9..Len(u) : CharAt(u, i) # " "

\* C3 as stated: integer digits are never cut while a rendering with fewer
\* decimals fits, and a cut that removes digits is reported to the caller.
C3_WarnedCut ==
    fmt_done =>
        /\ Len(FmtPlus(val, 0, tieUp)) <= 8 =>
               ParseField(fmt_out.result).idigits >= Len(NatStr(val.ip))
        /\ C3_CutLostDigits => fmt_out.warnings # <<>>

\* C4 as stated: the field carries decimal_places fractional digits whenever
\* that rendering fits in 8 characters.
C4_PlacesHonoured ==
    fmt_done /\ Len(FmtPlus(val, places, tieUp)) <= 8 =>
        ParseField(fmt_out.result).fd = places

\* C5 as stated: the call fails exactly when sign and integer part need more
\* than 8 characters.
C5_OverflowRaises ==
    fmt_done => (fmt_out.raised <=> Len(FmtPlus(val, 0, tieUp)) > 8)

-----------------------------------------------------------------------------
(* Claims about the encoders (specification Spec).                         *)

block_done == pc = "format_state_block"
scan_done == pc = "format_state"

\* The binding energy of the encoded state, in units of 0.001 MeV.
BindingEnergy == IF block_done THEN state.E_bind_MeV ELSE -4304 + ex_mev

\* The control code in columns 1-16 of the title card.
ControlCode == SubSeq(lines[1], 1, 16)

C7_CodeMatchesMarker ==
    block_done \/ scan_done =>
        LET t == lines[1]
        IN  IF BindingEnergy < 0
            THEN /\ ControlCode = "1001000000200000"
                 /\ EndsWith(RStrip(t), " bound ZR")
                 /\ ~Contains(t, "unbound ZR")
            ELSE /\ ControlCode = "1011000030000000"
                 /\ EndsWith(RStrip(t), " unbound ZR")

\* C7 witness: an unbound state has been encoded by format_state with the
\* unbound marker on its title.
C7_Witness == scan_done /\ BindingEnergy >= 0 /\ Contains(lines[1], "unbound ZR")

\* The radial-integration bound: columns 17-24 of the integration card.
RmaxField == SubSeq(lines[4], 17, 24)

\* C8: the integration bound reads +50 for a bound state and -15 for an
\* unbound one, and its sign character is '-' exactly for an unbound state.
C8_RmaxSign ==
    block_done \/ scan_done =>
        LET f == ParseField(RmaxField)
        IN  /\ f.ok /\ f.fp = 0
            /\ BindingEnergy < 0 => ~f.neg /\ f.ip = 50
            /\ BindingEnergy >= 0 => f.neg /\ f.ip = 15
            /\ CharAt(RmaxField, 1) = "-" <=> BindingEnergy >= 0
            /\ CharAt(RmaxField, 1) \in {"+", "-"}

\* C8 witness: an unbound state has been encoded by format_state_block with a
\* negative integration bound.
C8_Witness == block_done /\ state.E_bind_MeV > 0 /\ CharAt(RmaxField, 1) = "-"

\* A depth field of an optical-potential card reads back within 0.0005 of the
\* depth x (in units of 10^-fd).
DepthFieldIs(card, col, x, fd) ==
    LET f == ParseField(SubSeq(card, col, col + 6))
    IN  f.ok /\ f.fd = 3 /\ Dist(NumOf(x, fd), f) * 2000 <= Pow10(fd)

\* C9: each of the four depths is depth_ref + slope * (E - 9.438) and is the
\* one rendered on the exit-particle cards; at E = 9.438 the depths are the
\* reference values and the three cards are the reference cards.
C9_ProtonDepths ==
    block_done =>
        LET E == state.E_proton_MeV
            d == opt_pot.depths
        IN  /\ d.V_real   = -56249000 + 405 * (E - 9438)
            /\ d.W_surf   =  34836000 - 415 * (E - 9438)
            /\ d.VSO_real =   -786000 +  81 * (E - 9438)
            /\ d.WSO_imag =    156000 -  19 * (E - 9438)
            /\ lines[10] = opt_pot.card2
            /\ lines[11] = opt_pot.card3
            /\ lines[12] = opt_pot.card4
            /\ DepthFieldIs(lines[10], 9, d.V_real, 6)
            /\ DepthFieldIs(lines[10], 41, d.VSO_real, 6)
            /\ DepthFieldIs(lines[11], 41, d.W_surf, 6)
            /\ DepthFieldIs(lines[12], 41, d.WSO_imag, 6)
            /\ E = 9438 =>
                 /\ d = [V_real |-> -56249000, W_surf |-> 34836000,
                         VSO_real |-> -786000, WSO_imag |-> 156000]
                 /\ lines[10] = FIXED_PARAMS.p2_card2
                 /\ lines[11] = FIXED_PARAMS.p2_card3
                 /\ lines[12] = FIXED_PARAMS.p2_card4

\* C9 witness: a state at the reference energy has been encoded with the
\* reference imaginary-surface card.
C9_Witness ==
    block_done /\ state.E_proton_MeV = 9438 /\ lines[11] = FIXED_PARAMS.p2_card3

\* C10: of the entrance-particle cards (5-8) only the imaginary-surface card
\* depends on the state: its depth field is 42.340 - 1.69 * (Q - 2.079), the
\* rest of it and the other three cards are the fixed texts.
C10_EntranceFrame ==
    block_done =>
        LET Q == state.Q_MeV
        IN  /\ lines[5] = Ljust(FIXED_PARAMS.p1_card1, 80)
            /\ lines[6] = FIXED_PARAMS.p1_card2
            /\ lines[8] = FIXED_PARAMS.p1_card4
            /\ Len(lines[7]) = 64
            /\ SubSeq(lines[7], 1, 40) = SubSeq(FIXED_PARAMS.p1_card3, 1, 40)
            /\ SubSeq(lines[7], 48, 64) = SubSeq(FIXED_PARAMS.p1_card3, 48, 64)
            /\ DepthFieldIs(lines[7], 41, 4234000 - 169 * (Q - 2079), 5)
            /\ Q = 2079 => SubSeq(lines[7], 41, 47) = "+42.340"

\* C10 witness: a state with another Q-value has been encoded and its
\* imaginary-surface card differs from the reference card.
C10_Witness ==
    block_done /\ state.Q_MeV = 1434 /\ SubSeq(lines[7], 41, 47) = "+43.430"

\* C12 as stated: the title card of every block is exactly 80 characters wide,
\* whatever the excitation energy and the orbital label: a short title is
\* padded with blanks, and no title is longer than the field.
C12_Title80 ==
    (block_done \/ scan_done) => Len(lines[1]) = 80

-----------------------------------------------------------------------------
(* Claims about the signed energy fields (specification SpecSign).         *)

sign_done == pc = "p2_c1, p3_c1"

\* C13 as stated: for |value| < 100 the Q-value field and the binding-energy
\* field each begin with exactly one sign character and occupy 7 characters,
\* for a negative as for a non-negative value, so that the fixed text after
\* them starts at column 8.
C13_SignedFields ==
    sign_done /\ val.ip < 100 =>
        \A k \in 1..2 :
            /\ CharAt(lines[k], 1) \in {"+", "-"}
            /\ \A i \in 2..7 : IsDigit(CharAt(lines[k], i)) \/ CharAt(lines[k], i) = "."
            /\ SubSeq(lines[k], 8, 12) = "  1.0"

-----------------------------------------------------------------------------
(* Claims about the generated document (specification SpecGen).            *)

gen_done == pc = "generate_input_file"
main_done == pc = "main"

is_state(row) == row.kind = "state"
is_invalid(row) == row.kind = "invalid"

\* The rows of the CSV file that are states with every field valid / invalid.
ValidStates(c) == SelectSeq(c, is_state)
InvalidStates(c) == SelectSeq(c, is_invalid)

\* The blocks of the given rows, one after the other.
RECURSIVE BlocksOf(_)
BlocksOf(rows) ==
    IF rows = <<>> THEN <<>>
    ELSE format_state_block(Head(rows).st, NoTies).lines \o BlocksOf(Tail(rows))

\* The first four characters of the cards that start with a fixed text.
CardOrder(block) ==
    /\ Len(block) = 15
    /\ << SubSeq(block[2], 1, 4), SubSeq(block[6], 1, 4), SubSeq(block[7], 1, 4),
          SubSeq(block[8], 1, 4), SubSeq(block[10], 1, 4), SubSeq(block[11], 1, 4),
          SubSeq(block[12], 1, 4), SubSeq(block[14], 1, 4) >>
       = << "+90.", "+01.", "+02.", "-04.", "+01.", "+02.", "-04.", "-01." >>

\* c is n blocks of 15 cards in the fixed card order, then the end marker,
\* which occurs nowhere else.
WellFormedDocument(c, n) ==
    /\ Len(c) = 15 * n + 1
    /\ \A b \in 1..n : CardOrder(SubSeq(c, 15 * (b - 1) + 1, 15 * b))
    /\ \A k \in 1..Len(c) : (c[k] = END_OF_DATA) <=> (k = Len(c))

\* C11: for a non-empty sequence of n valid states the document is the n
\* blocks in input order, each of 15 cards in the same card order whether the
\* state is bound or unbound, followed by exactly one end marker, which is the
\* last line; the scan writes its 8 blocks in the same way.
C11_Document ==
    /\ gen_done /\ ValidStates(csv) # <<>> /\ InvalidStates(csv) = <<>> =>
           /\ gen.result = "True"
           /\ out_file.exists
           /\ out_file.content = Append(BlocksOf(ValidStates(csv)), END_OF_DATA)
           /\ WellFormedDocument(out_file.content, Len(ValidStates(csv)))
    /\ main_done =>
           /\ out_file.exists
           /\ WellFormedDocument(out_file.content, 8)
           /\ \A ex \in 0..7 :
                  SubSeq(out_file.content, 15 * ex + 1, 15 * ex + 15)
                      = format_state(1000 * ex, get_base_parameters)

\* C11 witness: a document of three states, bound and unbound, has been
\* written with its end marker.
C11_Witness ==
    /\ gen_done
    /\ Len(csv) = 3
    /\ \A k \in 1..3 : is_state(csv[k])
    /\ \E k \in 1..3 : is_bound(csv[k].st.E_bind_MeV)
    /\ \E k \in 1..3 : ~is_bound(csv[k].st.E_bind_MeV)
    /\ Len(out_file.content) = 46
    /\ out_file.content[46] = END_OF_DATA

\* C14 as stated: a state with a missing or non-numeric required field is
\* rejected on its own: only its block is skipped, the other states are
\* encoded, and the document ends with the end marker.
C14_SkipInvalidOnly ==
    gen_done /\ ValidStates(csv) # <<>> =>
        /\ out_file.exists
        /\ out_file.content = Append(BlocksOf(ValidStates(csv)), END_OF_DATA)

\* C15 as stated: when the input has no state, or every state is invalid, the
\* run does not return success and the output file is neither created nor
\* modified.
C15_NothingWritten ==
    [][(pc \in {"call generate_input_file", "open", "for state"}
            /\ ValidStates(csv) = <<>>)
         => (out_file' = out_file /\ gen'.result # "True")]_vars

-----------------------------------------------------------------------------
(* Claims about the decoders (specification SpecDec).                      *)

dec_done == pc \in {"plot_bound_states", "plot_single_run", "plot_scan_overlay"}

\* The collection a decoder returned, in one shape for the three of them:
\* the series in the order of the collection, each with its label (the
\* energy in keV for the overlay parser, the title text for the other two).
Collection ==
    IF pc = "plot_bound_states"
    THEN [k \in 1..Len(dec.states) |->
             [label  |-> dec.states[k].title,
              angles |-> dec.states[k].theta,
              values |-> dec.states[k].cross_section]]
    ELSE [k \in 1..Len(dec.states) |->
             [label  |-> dec.states[k].key,
              angles |-> dec.states[k].angles,
              values |-> dec.states[k].xsecs]]

Titles == {TitleA, TitleB}
Tables == {<<Header, Row1, Row2, Row3>>, <<Header, Rule, Row4>>}
IsRow(line) == line \in {Row1, Row2, Row3, Row4, Row5}

\* The label under which the running decoder files the series of a title.
LabelOf(title) ==
    IF pc = "plot_scan_overlay" THEN (IF title = TitleA THEN 0 ELSE 4804)
    ELSE Strip(title)

\* The two columns of the numeric rows among the given lines.
AnglesOf(ls) ==
    LET rows == SelectSeq(ls, IsRow)
    IN  [k \in 1..Len(rows) |-> float_of(Split(rows[k])[1])]
ValuesOf(ls) ==
    LET rows == SelectSeq(ls, IsRow)
    IN  [k \in 1..Len(rows) |-> float_of(Split(rows[k])[2])]

\* The series of a title and the rows of a table.
SeriesOf(title, table) ==
    [label |-> LabelOf(title), angles |-> AnglesOf(table), values |-> ValuesOf(table)]

IsSuffix(a, b) == Len(a) <= Len(b) /\ SubSeq(b, Len(b) - Len(a) + 1, Len(b)) = a

\* C16: an output of n titles with distinct labels, each followed by a table
\* header and k numeric rows, decodes into exactly n series, one per title in
\* order of appearance, each holding its own k rows in their order.
C16_OneSeriesPerTitle ==
    dec_done =>
        \A t1 \in Titles, b1 \in Tables :
            /\ doc = <<t1>> \o b1 => Collection = <<SeriesOf(t1, b1)>>
            /\ \A t2 \in Titles \ {t1}, b2 \in Tables :
                   doc = <<t1>> \o b1 \o <<t2>> \o b2
                       => Collection = <<SeriesOf(t1, b1), SeriesOf(t2, b2)>>

\* C16 witness: an output of two titles with three rows each has been decoded
\* by the index-based decoder into two series of three rows.
C16_Witness ==
    /\ pc = "plot_bound_states"
    /\ doc = <<TitleA, Header, Row1, Row2, Row3, TitleB, Header, Row1, Row2, Row3>>
    /\ Len(dec.states) = 2
    /\ Len(dec.states[1].theta) = 3
    /\ Len(dec.states[2].theta) = 3

\* C17 as stated: when a title is followed at once by another title and then
\* by a table, the rows are filed under the second title's label and never
\* under the first, which yields no series.
C17_RowsUnderSecondTitle ==
    dec_done =>
        \A t1 \in Titles, b \in Tables : \A t2 \in Titles \ {t1} :
            doc = <<t1, t2>> \o b => Collection = <<SeriesOf(t2, b)>>

\* C18 as stated: the first line after the rows of a series that is not a
\* numeric row closes the series, so that a row further down is not added to
\* it; and when that line is a title it is read as one.
C18_FirstNonRowCloses ==
    dec_done =>
        \A t1 \in Titles, b1 \in Tables :
            /\ \A x \in {Blank, Text, TotSig} :
                   doc = <<t1>> \o b1 \o <<x, Row5>> => Collection = <<SeriesOf(t1, b1)>>
            /\ \A t2 \in Titles \ {t1} :
                   doc = <<t1>> \o b1 \o <<t2, Header, Row5>>
                       => Collection = <<SeriesOf(t1, b1), SeriesOf(t2, <<Row5>>)>>

\* C19: when the output ends inside the table of a title, after at least one
\* row, the rows of that table are not lost: a series of the collection ends
\* with all of them, and the decoder returns normally.
C19_FlushAtEnd ==
    dec_done =>
        \A t \in Titles, b \in Tables :
            IsSuffix(<<t>> \o b, doc) =>
                \E k \in 1..Len(Collection) :
                    /\ IsSuffix(AnglesOf(b), Collection[k].angles)
                    /\ IsSuffix(ValuesOf(b), Collection[k].values)

\* C19 witness: the line-by-line decoder has returned the three rows of a
\* table that ends the output, under the title before it.
C19_Witness ==
    /\ pc = "plot_single_run"
    /\ doc = <<TitleA, Header, Row1, Row2, Row3>>
    /\ Len(dec.states) = 1
    /\ dec.states[1].key = Strip(TitleA)
    /\ Len(dec.states[1].angles) = 3

\* C20 as stated: when two series carry the same label the collection holds
\* exactly one series for that label, with the rows of the last of the two.
C20_LastWriteWins ==
    dec_done =>
        \A t \in Titles, b1 \in Tables : \A b2 \in Tables \ {b1} :
            doc = <<t>> \o b1 \o <<t>> \o b2 => Collection = <<SeriesOf(t, b2)>>

-----------------------------------------------------------------------------
(* Claims about the four decoders and their mains (specification           *)
(* SpecParse).                                                             *)

\* The series the running decoder holds, in one shape for the four decoders.
SeriesHeld ==
    IF "series" \in DOMAIN dec
    THEN [k \in 1..Len(dec.series) |->
             [label  |-> dec.series[k].title,
              angles |-> dec.series[k].theta,
              values |-> dec.series[k].y]]
    ELSE [k \in 1..Len(dec.states) |->
             IF "theta" \in DOMAIN dec.states[k]
             THEN [label  |-> dec.states[k].title,
                   angles |-> dec.states[k].theta,
                   values |-> dec.states[k].cross_section]
             ELSE [label  |-> dec.states[k].key,
                   angles |-> dec.states[k].angles,
                   values |-> dec.states[k].xsecs]]

\* The rows a line-by-line decoder has gathered for the series it is reading.
RowsHeld ==
    IF "angles" \in DOMAIN dec
    THEN [angles |-> dec.angles, values |-> dec.xsecs]
    ELSE [angles |-> <<>>, values |-> <<>>]

\* Every list of angles with its list of values, stored or being gathered.
ColumnPairs == {SeriesHeld[k] : k \in 1..Len(SeriesHeld)} \cup {RowsHeld}

\* The rows (angle, value) of a pair of columns, as far as both reach.
RowsOf(c) ==
    {<<c.angles[k], c.values[k]>> :
        k \in 1..(IF Len(c.angles) < Len(c.values) THEN Len(c.angles) ELSE Len(c.values))}

\* The first token of the line is a number for float().
NumericFirst(line) ==
    Split(Strip(line)) # <<>> /\ ParseFloat(Split(Strip(line))[1]).ok

\* The row a line whose first token is a number can give: its first two
\* tokens; computed once for every line of the outputs.
RowGiven ==
    [line \in OutputLines |->
        IF NumericFirst(line) /\ Len(Split(Strip(line))) >= 2
        THEN {<<float_of(Split(Strip(line))[1]), float_of(Split(Strip(line))[2])>>}
        ELSE {}]

\* C21: in every decoder, at every moment, each row held in a series or in
\* the rows being gathered is the first two tokens of a line of the output
\* whose first token is a number: a line that starts with a word gives no
\* row, whatever follows the word.
C21_WordFirstNoRow ==
    \A c \in ColumnPairs : \A row \in RowsOf(c) :
        \E k \in 1..Len(doc) : row \in RowGiven[doc[k]]

\* C21 witness: a line of one word and two numbers stood between the rows
\* of a table, and the line-by-line decoder returned the three rows only.
C21_Witness ==
    /\ pc = "plot_single_run"
    /\ doc = <<TitleA, Header, Row1, Row2, Note, Row5>>
    /\ Len(dec.states) = 1
    /\ Len(dec.states[1].angles) = 3

\* C22: in every state of a decoding pass and in every series returned, the
\* angles and the values are sequences of the same length.
C22_SameLength ==
    \A c \in ColumnPairs : Len(c.angles) = Len(c.values)

\* C22 witness: the line-by-line decoder is past a row whose value is no
\* number, holding the two rows before it.
C22_Witness ==
    /\ pc = "plot_scan_overlay: for line"
    /\ doc = <<TitleA, Header, Row1, Row2, OddRow, Row5>>
    /\ dec.i = 6
    /\ Len(dec.angles) = 2

\* No line of the output names the reaction.
NoTitleLine == \A k \in 1..Len(doc) : ~Tests[doc[k]].reaction

LabelDecoders == {"plot_bound_states", "plot_single_run", "plot_scan_overlay"}

\* C23: when the output holds no title line, whatever headers and rows it
\* holds, each of the three decoders that file series under a title returns
\* an empty collection, and its main prints that no states were found and
\* ends with status 1 instead of plotting.
C23_NoTitleNoStates ==
    NoTitleLine =>
        /\ pc \in LabelDecoders => dec.states = <<>>
        /\ pc \notin {name \o ": plot" : name \in LabelDecoders}
        /\ pc \in {name \o ": main ends" : name \in LabelDecoders} =>
               /\ dec.exit = 1
               /\ dec.printed \in {"No states found in output.",
                                    "Error: No states found in output file"}

\* C23 witness: main of plot_single_run has ended with status 1 on an output
\* of two tables and no title.
C23_Witness ==
    /\ pc = "plot_single_run: main ends"
    /\ doc = <<Header, Row1, Row2, Header, Row4>>
    /\ dec.exit = 1

\* The tables of the outputs of SpecParse.
PieceTables == {<<Header, Row1, Row2>>, <<Header, Row4>>}

IndexLoops == {"plot_bound_states: while", "plot_dwuck: while"}

\* C24 as stated, for the two index-based decoders: after the header of a
\* table the lines that are no numeric rows are skipped, whatever they are,
\* and the first numeric row opens the series; the table of a title that
\* holds a valid row always yields a series, with that row in it.
C24_TableYieldsSeries ==
    pc \in {"plot_bound_states", "plot_dwuck"} =>
        \A mid \in {<<Rule>>, <<Rule, Note>>, <<Rule, OddRow>>} :
            doc = <<TitleA, Header>> \o mid \o <<Row5>> =>
                /\ Len(SeriesHeld) = 1
                /\ SeriesHeld[1].angles = AnglesOf(<<Row5>>)
                /\ SeriesHeld[1].values = ValuesOf(<<Row5>>)

\* C25 as stated: in plot_scan_overlay the rows that follow a title whose
\* energy cannot be read are not stored under the energy of the title before
\* it and do not replace its series.
C25_OwnEnergyOnly ==
    pc = "plot_scan_overlay" =>
        \A b1 \in PieceTables, b2 \in PieceTables :
            doc = <<TitleA>> \o b1 \o <<TitleC>> \o b2
                => SeriesHeld = <<SeriesOf(TitleA, b1)>>

\* C26 as stated: the rows of a table that stands before the first title (in
\* plot_scan_overlay, before the first title whose energy can be read) are
\* in no series the line-by-line decoders return.
C26_NoRowsBeforeTitle ==
    \A b0 \in PieceTables, b1 \in PieceTables :
        /\ pc \in {"plot_single_run", "plot_scan_overlay"} /\ doc = b0 \o <<TitleA>> \o b1
               => SeriesHeld = <<SeriesOf(TitleA, b1)>>
        /\ pc = "plot_scan_overlay" /\ doc = <<TitleC>> \o b0 \o <<TitleA>> \o b1
               => SeriesHeld = <<SeriesOf(TitleA, b1)>>

\* The two index-based decoders and their mains on their own, running on: a
\* step is taken whenever one is possible.  MaxFairSegs is the largest
\* number of pieces of their outputs.
MaxFairSegs == 3

InitIndex ==
    /\ NoFmt
    /\ NoBlock
    /\ NoGen
    /\ state = ScenarioA
    /\ ties = NoTies
    /\ ex_mev = 0
    /\ doc \in {Flatten(q) : q \in SeqsUpTo(Pieces, MaxFairSegs)}
    /\ \/ /\ pc = "plot_bound_states: while"
          /\ dec = [i |-> 1, states |-> <<>>]
       \/ /\ pc = "plot_dwuck: while"
          /\ dec = [i |-> 1, series |-> <<>>]

NextIndex ==
    \/ Bound_step
    \/ Bound_return
    \/ Bound_main
    \/ Dwuck_step
    \/ Dwuck_return
    \/ Dwuck_main

SpecIndexFair == InitIndex /\ [][NextIndex]_vars /\ WF_vars(NextIndex)

\* C27: the two index-based decoders end on every output: each turn of the
\* outer loop moves the index i forward, never beyond the position after the
\* last line, and the loop is left.
C27_Terminates ==
    /\ [][(pc \in IndexLoops /\ pc' = pc)
              => (dec'.i > dec.i /\ dec'.i <= Len(doc) + 1)]_vars
    /\ (pc \in IndexLoops) ~> (pc \notin IndexLoops)

\* C27 witness: plot_dwuck has returned the two series of an output of two
\* tables, its index standing behind the last line.
C27_Witness ==
    /\ pc = "plot_dwuck"
    /\ doc = <<Header, Row1, Row2, Header, Row4>>
    /\ Len(dec.series) = 2
    /\ dec.i = Len(doc) + 1

\* The title the claim gives the series whose header is line i: the line
\* closest to the header among the up to 6 lines before it that are not
\* empty and do not start with '0'.
NearestTitle(lines_, i) ==
    LET near == {k \in (IF i - 6 > 1 THEN i - 6 ELSE 1)..(i - 1) :
                    Strip(lines_[k]) # "" /\ CharAt(Strip(lines_[k]), 1) # "0"}
    IN  IF near = {} THEN "Series starting line " \o NatStr(i)
        ELSE Strip(lines_[CHOOSE k \in near : \A n \in near : n <= k])

\* C28 as stated: whenever parse_output stores a series, its title is the
\* nearest descriptive line before the header, and 'Series starting line
\* <n>' only when there is none among the 6 lines before it.
C28_NearestTitle ==
    [][(pc = "plot_dwuck: while" /\ Len(dec'.series) > Len(dec.series))
          => dec'.series[Len(dec'.series)].title = NearestTitle(doc, dec.i)]_vars

-----------------------------------------------------------------------------
(* A claim about the document written (specification SpecGen).             *)

\* C29 as stated: whenever generate_input_file has stopped, by return or by
\* an error, the output file is as it was before the call, or it holds
\* complete blocks followed by the end marker: never blocks without it.
\* (A file opened and left empty holds no block and is let pass here.)
C29_NeverPartial ==
    gen_done =>
        \/ out_file \in {NoFile, OldFile}
        \/ out_file.content = <<>>
        \/ \E n \in 1..MaxRows : WellFormedDocument(out_file.content, n)

====
